---------------------------- MODULE Spec2Model ----------------------------
(*
  Fusion5Driver of builder/vmware/driver.go: a driver that shells out to the
  VMware Fusion command line tools.  A Go string is a sequence of one-character
  strings, so that splitting, cleaning and comparing are computed on the
  characters.  One call of the driver is in progress at a time; a call that
  runs a subprocess waits in cmd.Run until the subprocess has exited.
*)
EXTENDS Integers, Sequences, FiniteSets, TLC

VARIABLES AppPath, pc, op, wd, absPath, cmd, proc, runs, fs, statLog, log, result

vars == <<AppPath, pc, op, wd, absPath, cmd, proc, runs, fs, statLog, log, result>>

-----------------------------------------------------------------------------
(* Bounds of the model *)

\* longest path a caller passes (vmxPath of IsRunning, Start and Stop)
MaxPathLen == 2
\* longest standard output of a subprocess
MaxOut == 2

-----------------------------------------------------------------------------
(* Strings *)

RECURSIVE SeqsUpTo(_, _)
SeqsUpTo(S, n) ==
    IF n = 0 THEN {<<>>}
    ELSE LET shorter == SeqsUpTo(S, n - 1)
         IN  shorter \cup {Append(s, c) : s \in {t \in shorter : Len(t) = n - 1}, c \in S}

HasPrefix(s, p) == Len(p) <= Len(s) /\ SubSeq(s, 1, Len(p)) = p

HasSuffix(s, p) == Len(p) <= Len(s) /\ SubSeq(s, Len(s) - Len(p) + 1, Len(s)) = p

Contains(s, sub) ==
    \E i \in 0..(Len(s) - Len(sub)) : SubSeq(s, i + 1, i + Len(sub)) = sub

\* strings.Split(s, sep) for a one-character separator
RECURSIVE Split(_, _)
Split(s, sep) ==
    IF \A i \in 1..Len(s) : s[i] # sep THEN <<s>>
    ELSE LET i == CHOOSE k \in 1..Len(s) : s[k] = sep /\ \A j \in 1..(k - 1) : s[j] # sep
         IN  <<SubSeq(s, 1, i - 1)>> \o Split(SubSeq(s, i + 1, Len(s)), sep)

\* strings.Join(elems, sep)
RECURSIVE JoinSep(_, _)
JoinSep(elems, sep) ==
    IF elems = <<>> THEN <<>>
    ELSE IF Len(elems) = 1 THEN elems[1]
    ELSE elems[1] \o sep \o JoinSep(Tail(elems), sep)

IsSpace(c) == c \in {" ", "\t", "\n", "\r"}

\* strings.TrimSpace(s)
RECURSIVE TrimLeft(_)
TrimLeft(s) == IF s # <<>> /\ IsSpace(s[1]) THEN TrimLeft(Tail(s)) ELSE s

RECURSIVE TrimRight(_)
TrimRight(s) ==
    IF s # <<>> /\ IsSpace(s[Len(s)]) THEN TrimRight(SubSeq(s, 1, Len(s) - 1)) ELSE s

TrimSpace(s) == TrimRight(TrimLeft(s))

\* strconv.Itoa(n) for n >= 0
Digits == <<"0", "1", "2", "3", "4", "5", "6", "7", "8", "9">>

RECURSIVE Itoa(_)
Itoa(n) == IF n < 10 THEN <<Digits[n + 1]>> ELSE Itoa(n \div 10) \o <<Digits[(n % 10) + 1]>>

-----------------------------------------------------------------------------
(* path/filepath *)

Sep == <<"/">>

IsAbs(path) == HasPrefix(path, Sep)

\* the elements of a path that Clean keeps: "" and "." are dropped, a ".."
\* removes the element before it, is dropped at the root, and is kept at the
\* start of a relative path
RECURSIVE CleanElems(_, _, _)
CleanElems(elems, kept, rooted) ==
    IF elems = <<>> THEN kept
    ELSE LET e == Head(elems)
             rest == Tail(elems)
         IN  IF e = <<>> \/ e = <<".">> THEN CleanElems(rest, kept, rooted)
             ELSE IF e = <<".", ".">>
                  THEN IF kept # <<>> /\ kept[Len(kept)] # <<".", ".">>
                       THEN CleanElems(rest, SubSeq(kept, 1, Len(kept) - 1), rooted)
                       ELSE IF rooted THEN CleanElems(rest, kept, rooted)
                       ELSE CleanElems(rest, Append(kept, e), rooted)
             ELSE CleanElems(rest, Append(kept, e), rooted)

\* filepath.Clean(path)
Clean(path) ==
    IF path = <<>> THEN <<".">>
    ELSE LET rooted == IsAbs(path)
             body == JoinSep(CleanElems(Split(path, "/"), <<>>, rooted), Sep)
             out == IF rooted THEN Sep \o body ELSE body
         IN  IF out = <<>> THEN <<".">> ELSE out

\* filepath.Join(elem...): the elements from the first non-empty one on,
\* joined by the separator and cleaned
RECURSIVE Join(_)
Join(elems) ==
    IF elems = <<>> THEN <<>>
    ELSE IF Head(elems) = <<>> THEN Join(Tail(elems))
    ELSE Clean(JoinSep(elems, Sep))

-----------------------------------------------------------------------------
(* errors *)

Nil == [kind |-> "nil", errno |-> "", msg |-> <<>>]

ErrnoText(errno) ==
    IF errno = "ENOENT"
    THEN <<":", " ", "n", "o", " ", "s", "u", "c", "h", " ", "f", "i", "l", "e", " ",
           "o", "r", " ", "d", "i", "r", "e", "c", "t", "o", "r", "y">>
    ELSE <<":", " ", "p", "e", "r", "m", "i", "s", "s", "i", "o", "n", " ",
           "d", "e", "n", "i", "e", "d">>

\* the *os.PathError of a failed system call on a path
PathError(call, path, errno) ==
    [kind |-> "PathError", errno |-> errno, msg |-> call \o <<" ">> \o path \o ErrnoText(errno)]

\* fmt.Errorf(format + "%s", arg)
Errorf(format, arg) == [kind |-> "errorString", errno |-> "", msg |-> format \o arg]

\* a variant that takes every error for a missing file
IsNotExistAnyError(err) == err # Nil

\* os.IsNotExist(err)
IsNotExist(err) == err.errno = "ENOENT"

\* the *exec.ExitError of a subprocess that exited with a non-zero status
ExitError(code) ==
    [kind |-> "ExitError", errno |-> "",
     msg |-> <<"e", "x", "i", "t", " ", "s", "t", "a", "t", "u", "s", " ">> \o Itoa(code)]

\* the error of os.Getwd when the working directory cannot be determined
GetwdError ==
    [kind |-> "SyscallError", errno |-> "ENOENT",
     msg |-> <<"g", "e", "t", "w", "d">> \o ErrnoText("ENOENT")]

-----------------------------------------------------------------------------
(* The values a caller and the environment supply *)

\* Fusion5Driver.AppPath: the path to the "VMware Fusion.app", in clean form
AppPaths == {<<"/", "A">>, <<"/", "V", "/", "F", ".", "a", "p", "p">>}

PathAlphabet == {"/", "a", "."}

VmxPaths == SeqsUpTo(PathAlphabet, MaxPathLen)

OutputPaths == {<<"/", "d">>, <<"d", "/", ".", "/">>}

Sizes == {<<"4", "0", "0", "0", "0", "M", "B">>, <<"-", "t">>}

OutAlphabet == {"/", "a", "A", " ", "\r", "\n"}

Outputs == SeqsUpTo(OutAlphabet, MaxOut)

\* what a subprocess other than vmrun list writes to its standard output
OtherOutputs == {<<>>, <<"o", "k", "\n">>}

StdoutOf(name) == IF name = "IsRunning" THEN Outputs ELSE OtherOutputs

StderrTexts == {<<>>, <<"/", "\n", "/", "a">>}

ExitCodes == {0, 1}

WorkDirs == {<<"/">>}

NoWd == [called |-> FALSE, dir |-> <<>>, err |-> Nil]

\* what os.Getwd can answer
GetwdOutcomes ==
    {[called |-> TRUE, dir |-> d, err |-> Nil] : d \in WorkDirs}
        \cup {[called |-> TRUE, dir |-> <<>>, err |-> GetwdError]}

\* what the stat system call can answer for a path
FsOutcomes == {"ok", "ENOENT", "EACCES"}

-----------------------------------------------------------------------------
(* The driver *)

vdiskManagerPath ==
    Join(<<AppPath, <<"C", "o", "n", "t", "e", "n", "t", "s">>,
           <<"L", "i", "b", "r", "a", "r", "y">>,
           <<"v", "m", "w", "a", "r", "e", "-", "v", "d", "i", "s", "k",
             "m", "a", "n", "a", "g", "e", "r">>>>)

vmrunPath ==
    Join(<<AppPath, <<"C", "o", "n", "t", "e", "n", "t", "s">>,
           <<"L", "i", "b", "r", "a", "r", "y">>, <<"v", "m", "r", "u", "n">>>>)

\* exec.Command(name, arg...) for a name that contains a separator
Command(name, args) == [Path |-> name, Args |-> <<name>> \o args]

NoCmd == [Path |-> <<>>, Args |-> <<>>]

NoProc == [state |-> "none", code |-> 0, stdout |-> <<>>, stderr |-> <<>>]

NoOp == [name |-> "none", path |-> <<>>, size |-> <<>>]

NoResult == [running |-> FALSE, err |-> Nil]

NoFs == [app |-> "ok", vmrun |-> "ok", vdisk |-> "ok"]

\* filepath.Abs(path), w being the answer of os.Getwd
Abs(path, w) ==
    IF IsAbs(path) THEN [path |-> Clean(path), err |-> Nil]
    ELSE IF w.err # Nil THEN [path |-> <<>>, err |-> w.err]
    ELSE [path |-> Join(<<w.dir, path>>), err |-> Nil]

CreateDiskCmd(output, size) ==
    Command(vdiskManagerPath,
            <<<<"-", "c">>, <<"-", "s">>, size, <<"-", "a">>,
              <<"l", "s", "i", "l", "o", "g", "i", "c">>, <<"-", "t">>, <<"1">>, output>>)

ListCmd ==
    Command(vmrunPath, <<<<"-", "T">>, <<"f", "u", "s", "i", "o", "n">>, <<"l", "i", "s", "t">>>>)

\* a variant that cleans the path it passes on
StartCmdCleaned(vmxPath) ==
    Command(vmrunPath,
            <<<<"-", "T">>, <<"f", "u", "s", "i", "o", "n">>, <<"s", "t", "a", "r", "t">>,
              Clean(vmxPath), <<"g", "u", "i">>>>)

StartCmd(vmxPath) ==
    Command(vmrunPath,
            <<<<"-", "T">>, <<"f", "u", "s", "i", "o", "n">>, <<"s", "t", "a", "r", "t">>,
              vmxPath, <<"g", "u", "i">>>>)

StopCmd(vmxPath) ==
    Command(vmrunPath,
            <<<<"-", "T">>, <<"f", "u", "s", "i", "o", "n">>, <<"s", "t", "o", "p">>,
              vmxPath, <<"h", "a", "r", "d">>>>)

\* the error of cmd.Run for a subprocess that exited with status code
WaitErr(code) == IF code = 0 THEN Nil ELSE ExitError(code)

\* the error of cmd.Run when the subprocess cannot be started
StartError(c) == PathError(<<"f", "o", "r", "k", "/", "e", "x", "e", "c">>, c.Path, "ENOENT")

\* a variant that returns the two streams as one text
RunAndLogReturnCombined(stdout, stderr, err) ==
    [stdout |-> stdout \o stderr, stderr |-> stderr, err |-> err]

\* a variant that puts the standard error text into the error it returns
RunAndLogReturnStderrInError(stdout, stderr, err) ==
    [stdout |-> stdout, stderr |-> stderr,
     err |-> IF err = Nil THEN Nil ELSE [err EXCEPT !.msg = @ \o <<":", " ">> \o stderr]]

\* what runAndLog returns
RunAndLogReturn(stdout, stderr, err) == [stdout |-> stdout, stderr |-> stderr, err |-> err]

LogExecuting(c) == [tag |-> "Executing", text |-> c.Path, args |-> Tail(c.Args)]

LogOutput(tag, text) == [tag |-> tag, text |-> TrimSpace(text), args |-> <<>>]

\* the two lines runAndLog logs after cmd.Run
LogAfterRun(stdout, stderr) == <<LogOutput("stdout", stdout), LogOutput("stderr", stderr)>>

\* CreateDisk, Start and Stop after runAndLog: the error, or nil
ErrorOnly(ret) == IF ret.err # Nil THEN [running |-> FALSE, err |-> ret.err] ELSE NoResult

\* a variant that looks for the line before it looks at the error
IsRunningResultLineFirst(ret, abs) ==
    LET lines == Split(ret.stdout, "\n")
    IN  [running |-> \E i \in 1..Len(lines) : lines[i] = abs, err |-> ret.err]

\* a variant that trims each line before comparing it
IsRunningResultTrimmed(ret, abs) ==
    IF ret.err # Nil THEN [running |-> FALSE, err |-> ret.err]
    ELSE LET lines == Split(ret.stdout, "\n")
         IN  [running |-> \E i \in 1..Len(lines) : TrimSpace(lines[i]) = abs, err |-> Nil]

\* IsRunning after runAndLog
IsRunningResult(ret, abs) ==
    IF ret.err # Nil THEN [running |-> FALSE, err |-> ret.err]
    ELSE LET lines == Split(ret.stdout, "\n")
         IN  [running |-> \E i \in 1..Len(lines) : lines[i] = abs, err |-> Nil]

OpResult(name, ret, abs) ==
    IF name = "IsRunning" THEN IsRunningResult(ret, abs) ELSE ErrorOnly(ret)

Init ==
    /\ AppPath \in AppPaths
    /\ pc = "idle"
    /\ op = NoOp
    /\ wd = NoWd
    /\ absPath = <<>>
    /\ cmd = NoCmd
    /\ proc = NoProc
    /\ runs = 0
    /\ fs = NoFs
    /\ statLog = <<>>
    /\ log = <<>>
    /\ result = NoResult

\* runAndLog up to cmd.Run: the command is logged and started; a subprocess
\* that cannot be started makes cmd.Run, and with it the operation, return
RunAndLog(c, name, abs) ==
    /\ cmd' = c
    /\ runs' = runs + 1
    /\ \/ /\ proc' = [NoProc EXCEPT !.state = "running"]
          /\ log' = Append(log, LogExecuting(c))
          /\ pc' = "waiting"
          /\ UNCHANGED result
       \/ /\ LET ret == RunAndLogReturn(<<>>, <<>>, StartError(c))
             IN  /\ log' = Append(log, LogExecuting(c)) \o LogAfterRun(ret.stdout, ret.stderr)
                 /\ result' = OpResult(name, ret, abs)
          /\ pc' = "done"
          /\ UNCHANGED proc

CreateDisk(output, size) ==
    /\ pc = "idle"
    /\ op' = [name |-> "CreateDisk", path |-> output, size |-> size]
    /\ RunAndLog(CreateDiskCmd(output, size), "CreateDisk", <<>>)
    /\ UNCHANGED <<AppPath, wd, absPath, fs, statLog>>

IsRunning(vmxPath, w) ==
    /\ pc = "idle"
    /\ op' = [name |-> "IsRunning", path |-> vmxPath, size |-> <<>>]
    /\ wd' = IF IsAbs(vmxPath) THEN NoWd ELSE w
    /\ LET a == Abs(vmxPath, w)
       IN  IF a.err # Nil
           THEN /\ result' = [running |-> FALSE, err |-> a.err]
                /\ pc' = "done"
                /\ UNCHANGED <<absPath, cmd, proc, runs, log>>
           ELSE /\ absPath' = a.path
                /\ RunAndLog(ListCmd, "IsRunning", a.path)
    /\ UNCHANGED <<AppPath, fs, statLog>>

Start(vmxPath) ==
    /\ pc = "idle"
    /\ op' = [name |-> "Start", path |-> vmxPath, size |-> <<>>]
    /\ RunAndLog(StartCmd(vmxPath), "Start", <<>>)
    /\ UNCHANGED <<AppPath, wd, absPath, fs, statLog>>

Stop(vmxPath) ==
    /\ pc = "idle"
    /\ op' = [name |-> "Stop", path |-> vmxPath, size |-> <<>>]
    /\ RunAndLog(StopCmd(vmxPath), "Stop", <<>>)
    /\ UNCHANGED <<AppPath, wd, absPath, fs, statLog>>

\* the subprocess exits, having written its standard output and standard error
ProcExit(code, out, err) ==
    /\ proc.state = "running"
    /\ proc' = [state |-> "exited", code |-> code, stdout |-> out, stderr |-> err]
    /\ UNCHANGED <<AppPath, pc, op, wd, absPath, cmd, runs, fs, statLog, log, result>>

\* a variant that runs the command once more after a failure
CompleteRetrying ==
    /\ pc = "waiting"
    /\ proc.state = "exited"
    /\ LET ret == RunAndLogReturn(proc.stdout, proc.stderr, WaitErr(proc.code))
       IN  /\ log' = log \o LogAfterRun(ret.stdout, ret.stderr)
           /\ IF ret.err # Nil /\ runs < 2
              THEN /\ runs' = runs + 1
                   /\ proc' = [NoProc EXCEPT !.state = "running"]
                   /\ UNCHANGED <<pc, result>>
              ELSE /\ result' = OpResult(op.name, ret, absPath)
                   /\ pc' = "done"
                   /\ UNCHANGED <<runs, proc>>
    /\ UNCHANGED <<AppPath, op, wd, absPath, cmd, fs, statLog>>

\* a variant that gives up waiting for the subprocess
CompleteWithoutExit ==
    /\ pc = "waiting"
    /\ LET ret == RunAndLogReturn(proc.stdout, proc.stderr, WaitErr(proc.code))
       IN  /\ log' = log \o LogAfterRun(ret.stdout, ret.stderr)
           /\ result' = OpResult(op.name, ret, absPath)
    /\ pc' = "done"
    /\ UNCHANGED <<AppPath, op, wd, absPath, cmd, proc, runs, fs, statLog>>

\* cmd.Run returns once the subprocess has exited; runAndLog logs the output
\* and returns, and the operation returns its result
Complete ==
    /\ pc = "waiting"
    /\ proc.state = "exited"
    /\ LET ret == RunAndLogReturn(proc.stdout, proc.stderr, WaitErr(proc.code))
       IN  /\ log' = log \o LogAfterRun(ret.stdout, ret.stderr)
           /\ result' = OpResult(op.name, ret, absPath)
    /\ pc' = "done"
    /\ UNCHANGED <<AppPath, op, wd, absPath, cmd, proc, runs, fs, statLog>>

\* os.Stat(path): nil, or the error of the stat system call
Stat(outcome, path) == IF outcome = "ok" THEN Nil ELSE PathError(<<"s", "t", "a", "t">>, path, outcome)

AppNotFoundFormat ==
    <<"F", "u", "s", "i", "o", "n", " ", "a", "p", "p", "l", "i", "c", "a", "t", "i", "o", "n",
      " ", "n", "o", "t", " ", "f", "o", "u", "n", "d", " ", "a", "t", " ", "p", "a", "t", "h",
      ":", " ">>

VmrunNotFoundFormat ==
    <<"C", "r", "i", "t", "i", "c", "a", "l", " ", "a", "p", "p", "l", "i", "c", "a", "t", "i",
      "o", "n", " ", "'", "v", "m", "r", "u", "n", "'", " ", "n", "o", "t", " ", "f", "o", "u",
      "n", "d", " ", "a", "t", " ", "p", "a", "t", "h", ":", " ">>

VdiskNotFoundFormat ==
    <<"C", "r", "i", "t", "i", "c", "a", "l", " ", "a", "p", "p", "l", "i", "c", "a", "t", "i",
      "o", "n", " ", "v", "d", "i", "s", "k", " ", "m", "a", "n", "a", "g", "e", "r", " ", "n",
      "o", "t", " ", "f", "o", "u", "n", "d", " ", "a", "t", " ", "p", "a", "t", "h", ":", " ">>

\* one existence check of Verify: the error it makes Verify return, or nil
Check(outcome, path, format) ==
    LET err == Stat(outcome, path)
    IN  IF err = Nil THEN Nil
        ELSE IF IsNotExist(err) THEN Errorf(format, path)
        ELSE err

\* a variant that looks for the disk manager before it looks for vmrun
VerifyResultVdiskFirst(f) ==
    LET e1 == Check(f.app, AppPath, AppNotFoundFormat)
        e2 == Check(f.vmrun, vmrunPath, VmrunNotFoundFormat)
        e3 == Check(f.vdisk, vdiskManagerPath, VdiskNotFoundFormat)
    IN  IF e1 # Nil THEN [stats |-> <<AppPath>>, err |-> e1]
        ELSE IF e3 # Nil THEN [stats |-> <<AppPath, vdiskManagerPath>>, err |-> e3]
        ELSE IF e2 # Nil THEN [stats |-> <<AppPath, vdiskManagerPath, vmrunPath>>, err |-> e2]
        ELSE [stats |-> <<AppPath, vdiskManagerPath, vmrunPath>>, err |-> Nil]

\* a variant that does not look for the disk manager
VerifyResultTwoChecks(f) ==
    LET e1 == Check(f.app, AppPath, AppNotFoundFormat)
        e2 == Check(f.vmrun, vmrunPath, VmrunNotFoundFormat)
    IN  IF e1 # Nil THEN [stats |-> <<AppPath>>, err |-> e1]
        ELSE IF e2 # Nil THEN [stats |-> <<AppPath, vmrunPath>>, err |-> e2]
        ELSE [stats |-> <<AppPath, vmrunPath>>, err |-> Nil]

\* Verify: the paths it stats, in order, and the error it returns
VerifyResult(f) ==
    LET e1 == Check(f.app, AppPath, AppNotFoundFormat)
        e2 == Check(f.vmrun, vmrunPath, VmrunNotFoundFormat)
        e3 == Check(f.vdisk, vdiskManagerPath, VdiskNotFoundFormat)
    IN  IF e1 # Nil THEN [stats |-> <<AppPath>>, err |-> e1]
        ELSE IF e2 # Nil THEN [stats |-> <<AppPath, vmrunPath>>, err |-> e2]
        ELSE IF e3 # Nil THEN [stats |-> <<AppPath, vmrunPath, vdiskManagerPath>>, err |-> e3]
        ELSE [stats |-> <<AppPath, vmrunPath, vdiskManagerPath>>, err |-> Nil]

Verify(f) ==
    /\ pc = "idle"
    /\ op' = [name |-> "Verify", path |-> <<>>, size |-> <<>>]
    /\ fs' = f
    /\ LET v == VerifyResult(f)
       IN  /\ statLog' = v.stats
           /\ result' = [running |-> FALSE, err |-> v.err]
    /\ pc' = "done"
    /\ UNCHANGED <<AppPath, wd, absPath, cmd, proc, runs, log>>

\* the caller has the result; the driver keeps nothing of the call
Return ==
    /\ pc = "done"
    /\ pc' = "idle"
    /\ op' = NoOp
    /\ wd' = NoWd
    /\ absPath' = <<>>
    /\ cmd' = NoCmd
    /\ proc' = NoProc
    /\ runs' = 0
    /\ fs' = NoFs
    /\ statLog' = <<>>
    /\ log' = <<>>
    /\ result' = NoResult
    /\ UNCHANGED AppPath

Next ==
    \/ \E output \in OutputPaths, size \in Sizes : CreateDisk(output, size)
    \/ \E vmxPath \in VmxPaths, w \in GetwdOutcomes : IsRunning(vmxPath, w)
    \/ \E vmxPath \in VmxPaths : Start(vmxPath)
    \/ \E vmxPath \in VmxPaths : Stop(vmxPath)
    \/ \E f \in [app : FsOutcomes, vmrun : FsOutcomes, vdisk : FsOutcomes] : Verify(f)
    \/ \E code \in ExitCodes, out \in StdoutOf(op.name), err \in StderrTexts :
            ProcExit(code, out, err)
    \/ Complete
    \/ Return

Spec == Init /\ [][Next]_vars

\* the calling goroutine runs on whenever cmd.Run can return; nothing makes a
\* subprocess exit
LiveSpec == Spec /\ WF_vars(Complete)

-----------------------------------------------------------------------------
(* What the properties speak of *)

Done == pc = "done"

Exited == proc.state = "exited"

\* text has a line, between line feeds or the ends of the text, equal to line
HasLine(text, line) ==
    \E i \in 1..(Len(text) + 1) :
        /\ i = 1 \/ text[i - 1] = "\n"
        /\ i + Len(line) - 1 <= Len(text)
        /\ SubSeq(text, i, i + Len(line) - 1) = line
        /\ i + Len(line) = Len(text) + 1 \/ text[i + Len(line)] = "\n"

\* the absolute form of the path IsRunning was asked about
Queried == Abs(op.path, wd)

LibraryDir ==
    <<"/", "C", "o", "n", "t", "e", "n", "t", "s", "/", "L", "i", "b", "r", "a", "r", "y", "/">>

VmrunFile == AppPath \o LibraryDir \o <<"v", "m", "r", "u", "n">>

VdiskManagerFile ==
    AppPath \o LibraryDir
        \o <<"v", "m", "w", "a", "r", "e", "-", "v", "d", "i", "s", "k",
             "m", "a", "n", "a", "g", "e", "r">>

\* C1: when the path resolves and vmrun list succeeds, IsRunning answers true
\* exactly when a line of the standard output equals the absolute form of the
\* path; a line that is the path followed by white space, the path in another
\* case, or the relative path asked about, does not count.
IsRunningExactLine ==
    (Done /\ op.name = "IsRunning" /\ Queried.err = Nil /\ Exited /\ proc.code = 0)
        => /\ result.err = Nil
           /\ result.running <=> HasLine(proc.stdout, Queried.path)

\* vmrun list printed the path followed by a carriage return or a space, and
\* IsRunning answered false
WitnessTrailingSpace ==
    /\ Done /\ op.name = "IsRunning" /\ Exited /\ proc.code = 0
    /\ \E ws \in {" ", "\r"} : HasLine(proc.stdout, Append(Queried.path, ws))
    /\ ~result.running

\* C7: the two streams of a subprocess are kept apart and IsRunning reads the
\* standard output only: a line equal to the absolute path that is on the
\* standard error and not on the standard output does not make it answer true,
\* and each stream is logged as its own text.
StderrIsNotMatched ==
    (Done /\ op.name = "IsRunning" /\ Exited)
        => /\ (HasLine(proc.stderr, Queried.path) /\ ~HasLine(proc.stdout, Queried.path))
                  => ~result.running
           /\ log[2] = [tag |-> "stdout", text |-> TrimSpace(proc.stdout), args |-> <<>>]
           /\ log[3] = [tag |-> "stderr", text |-> TrimSpace(proc.stderr), args |-> <<>>]

\* vmrun list succeeded with the path on its standard error only
WitnessPathOnStderr ==
    /\ Done /\ op.name = "IsRunning" /\ Exited /\ proc.code = 0
    /\ HasLine(proc.stderr, Queried.path)
    /\ ~HasLine(proc.stdout, Queried.path)
    /\ ~result.running

\* C8: IsRunning never answers true together with an error; when the path
\* cannot be made absolute it answers (false, that error) and runs nothing;
\* when vmrun list fails it answers (false, error) whatever the output holds.
IsRunningFalseOnError ==
    (Done /\ op.name = "IsRunning")
        => /\ ~(result.running /\ result.err # Nil)
           /\ Queried.err # Nil
                  => /\ result = [running |-> FALSE, err |-> wd.err]
                     /\ runs = 0 /\ cmd = NoCmd /\ proc = NoProc /\ log = <<>>
           /\ (Queried.err = Nil /\ ~(Exited /\ proc.code = 0))
                  => ~result.running /\ result.err # Nil

\* vmrun list failed after printing the path asked about
WitnessListFailedWithPath ==
    /\ Done /\ op.name = "IsRunning" /\ Exited /\ proc.code # 0
    /\ HasLine(proc.stdout, Queried.path)
    /\ ~result.running /\ result.err # Nil

CheckOrder == <<AppPath, VmrunFile, VdiskManagerFile>>

CheckOutcomes == <<fs.app, fs.vmrun, fs.vdisk>>

\* the first check that does not succeed, 4 when all succeed
FirstFailing ==
    IF \A i \in 1..3 : CheckOutcomes[i] = "ok" THEN 4
    ELSE CHOOSE k \in 1..3 :
             CheckOutcomes[k] # "ok" /\ \A j \in 1..(k - 1) : CheckOutcomes[j] = "ok"

NotFoundWords == <<"n", "o", "t", " ", "f", "o", "u", "n", "d">>

\* C3: Verify succeeds exactly when the bundle, vmrun and the disk manager all
\* exist; a missing bundle gives the "application not found" error with the
\* bundle path; with the bundle there, a missing tool gives a different
\* "Critical application ... not found" error with the name and the resolved
\* path of the missing tool.
VerifyReportsMissing ==
    (Done /\ op.name = "Verify")
        => /\ result.err = Nil <=> (fs.app = "ok" /\ fs.vmrun = "ok" /\ fs.vdisk = "ok")
           /\ fs.app = "ENOENT"
                  => result.err.msg
                         = <<"F", "u", "s", "i", "o", "n", " ", "a", "p", "p", "l", "i", "c",
                             "a", "t", "i", "o", "n", " ", "n", "o", "t", " ", "f", "o", "u",
                             "n", "d", " ", "a", "t", " ", "p", "a", "t", "h", ":", " ">>
                               \o AppPath
           /\ (fs.app = "ok" /\ fs.vmrun = "ENOENT")
                  => result.err.msg
                         = <<"C", "r", "i", "t", "i", "c", "a", "l", " ", "a", "p", "p", "l",
                             "i", "c", "a", "t", "i", "o", "n", " ", "'", "v", "m", "r", "u",
                             "n", "'", " ", "n", "o", "t", " ", "f", "o", "u", "n", "d", " ",
                             "a", "t", " ", "p", "a", "t", "h", ":", " ">> \o VmrunFile
           /\ (fs.app = "ok" /\ fs.vmrun = "ok" /\ fs.vdisk = "ENOENT")
                  => result.err.msg
                         = <<"C", "r", "i", "t", "i", "c", "a", "l", " ", "a", "p", "p", "l",
                             "i", "c", "a", "t", "i", "o", "n", " ", "v", "d", "i", "s", "k",
                             " ", "m", "a", "n", "a", "g", "e", "r", " ", "n", "o", "t", " ",
                             "f", "o", "u", "n", "d", " ", "a", "t", " ", "p", "a", "t", "h",
                             ":", " ">> \o VdiskManagerFile

\* the bundle and vmrun exist and the disk manager is missing
WitnessVdiskMissing ==
    /\ Done /\ op.name = "Verify"
    /\ fs = [app |-> "ok", vmrun |-> "ok", vdisk |-> "ENOENT"]
    /\ HasSuffix(result.err.msg, VdiskManagerFile)

\* C4: when a check of Verify fails with an error other than "does not
\* exist", Verify returns the error of that stat call as it is, no "not found"
\* text, and makes no later check.
VerifyPassesOtherErrors ==
    (Done /\ op.name = "Verify" /\ FirstFailing < 4)
        => LET k == FirstFailing
           IN  CheckOutcomes[k] = "EACCES"
                   => /\ result.err.kind = "PathError"
                      /\ result.err.errno = "EACCES"
                      /\ result.err.msg
                             = <<"s", "t", "a", "t", " ">> \o CheckOrder[k]
                                   \o <<":", " ", "p", "e", "r", "m", "i", "s", "s", "i", "o",
                                        "n", " ", "d", "e", "n", "i", "e", "d">>
                      /\ ~Contains(result.err.msg, NotFoundWords)
                      /\ statLog = SubSeq(CheckOrder, 1, k)

\* the bundle exists, vmrun cannot be examined, the disk manager is missing
WitnessPermissionDenied ==
    /\ Done /\ op.name = "Verify"
    /\ fs = [app |-> "ok", vmrun |-> "EACCES", vdisk |-> "ENOENT"]
    /\ result.err.errno = "EACCES"

\* the error is about path: it ends with it, or names it before a colon
ErrorNames(err, path) == HasSuffix(err.msg, path) \/ Contains(err.msg, path \o <<":">>)

\* C6: Verify checks the bundle, then vmrun, then the disk manager, and stops
\* at the first check that fails: the error is the one of the earliest failing
\* check and no later path is examined.
VerifyStopsAtFirstFailure ==
    (Done /\ op.name = "Verify")
        => LET k == FirstFailing
           IN  IF k = 4 THEN statLog = CheckOrder /\ result.err = Nil
               ELSE /\ statLog = SubSeq(CheckOrder, 1, k)
                    /\ result.err # Nil
                    /\ ErrorNames(result.err, CheckOrder[k])
                    /\ \A j \in 1..3 : j # k => ~ErrorNames(result.err, CheckOrder[j])

\* vmrun and the disk manager are both missing
WitnessBothToolsMissing ==
    /\ Done /\ op.name = "Verify"
    /\ fs = [app |-> "ok", vmrun |-> "ENOENT", vdisk |-> "ENOENT"]
    /\ statLog = <<AppPath, VmrunFile>>

\* C5: the command of each operation is the tool under
\* <AppPath>/Contents/Library with the fixed arguments in the fixed order, the
\* caller's strings passed on as they are; Start ends with gui, Stop with hard.
CommandLines ==
    /\ pc \in {"waiting", "done"} /\ runs > 0 => cmd # NoCmd
    /\ cmd # NoCmd
           => /\ cmd.Args[1] = cmd.Path
              /\ op.name = "CreateDisk"
                     => /\ cmd.Path = VdiskManagerFile
                        /\ Tail(cmd.Args)
                               = <<<<"-", "c">>, <<"-", "s">>, op.size, <<"-", "a">>,
                                   <<"l", "s", "i", "l", "o", "g", "i", "c">>, <<"-", "t">>,
                                   <<"1">>, op.path>>
              /\ op.name = "IsRunning"
                     => /\ cmd.Path = VmrunFile
                        /\ Tail(cmd.Args)
                               = <<<<"-", "T">>, <<"f", "u", "s", "i", "o", "n">>,
                                   <<"l", "i", "s", "t">>>>
              /\ op.name = "Start"
                     => /\ cmd.Path = VmrunFile
                        /\ Tail(cmd.Args)
                               = <<<<"-", "T">>, <<"f", "u", "s", "i", "o", "n">>,
                                   <<"s", "t", "a", "r", "t">>, op.path, <<"g", "u", "i">>>>
              /\ op.name = "Stop"
                     => /\ cmd.Path = VmrunFile
                        /\ Tail(cmd.Args)
                               = <<<<"-", "T">>, <<"f", "u", "s", "i", "o", "n">>,
                                   <<"s", "t", "o", "p">>, op.path, <<"h", "a", "r", "d">>>>
              /\ op.name \in {"CreateDisk", "IsRunning", "Start", "Stop"}

\* Start was given a path that is not in clean form
WitnessStartUncleanPath ==
    /\ pc = "waiting" /\ op.name = "Start"
    /\ op.path = <<"a", "/">>
    /\ cmd.Args[Len(cmd.Args)] = <<"g", "u", "i">>

\* C9: a call runs at most one subprocess and Verify runs none; when the
\* subprocess has failed, the next step of the call is to return the error,
\* with no second run.
OneSubprocessPerCall ==
    /\ [](/\ runs <= 1
          /\ op.name = "Verify" => runs = 0 /\ cmd = NoCmd /\ proc = NoProc)
    /\ [][(pc = "waiting" /\ Exited /\ proc.code # 0)
              => (pc' = "done" /\ result'.err # Nil /\ runs' = runs /\ proc' = proc)]_vars

\* an operation returned the error of its one failed subprocess
WitnessFailedOnce ==
    Done /\ Exited /\ proc.code # 0 /\ runs = 1 /\ result.err # Nil

\* C10: an operation that runs a subprocess returns only after the subprocess
\* has exited and its output is collected: while the subprocess runs the
\* operation has not returned, and once it has exited the operation returns.
ReturnsAfterExit ==
    /\ [](proc.state = "running" => pc = "waiting")
    /\ [](Done /\ proc.state # "none"
              => /\ Exited
                 /\ log[2].text = TrimSpace(proc.stdout)
                 /\ log[3].text = TrimSpace(proc.stderr))
    /\ (pc = "waiting" /\ Exited) ~> Done

\* an operation has returned after its subprocess exited
WitnessReturnedAfterExit == Done /\ Exited /\ op.name = "Stop"

====
